---- MODULE Spec2Model ----
(***************************************************************************)
(* The appointment notification app:                                       *)
(*  - the Convex mutations on the appointments and patients tables         *)
(*    (convex/appointments.ts, convex/patients.ts);                        *)
(*  - the sync action that resolves the clinical source's appointments     *)
(*    into them (convex/sync.ts: syncFhirData);                            *)
(*  - the browser-side call handlers and status pollers (App.tsx:          *)
(*    handleCall, handleSidebarCall, pollCallStatus, handleCancelCall,     *)
(*    handleToggleContacted, CallHistoryItem) and formatChileanPhone.      *)
(*                                                                         *)
(* A Convex mutation is one serializable transaction, so each mutation is  *)
(* one atomic step on the tables.  Every await of a handler or of the      *)
(* sync action is a point where the steps of other handlers, of other      *)
(* browsers and of other sync runs may interleave.                         *)
(*                                                                         *)
(* Specifications: Spec, OneCall and FairOneCall (browsers and calls),     *)
(* SyncSpec (sync runs), MutationSpec (mutations called directly),         *)
(* PhoneSpec (formatChileanPhone on stored phone strings).                 *)
(***************************************************************************)
EXTENDS Integers, Sequences, FiniteSets, TLC

\* ---------------------------------------------------------------- bounds
\* Number of call initiations (clicks on "Llamar") in one run.
MaxCalls == 2
\* Number of status queries of one poller that the status endpoint answers
\* with "pending" or without an outcome in a run with MaxCalls calls.
MaxPendingPolls == 1
\* Client clocks produce the timestamps 1..MaxTime.
MaxTime == 2
\* Number of manual outcome corrections in one run.
MaxOverrides == 1

\* ------------------------------------------------------ program constants
\* const maxAttempts = 30
maxAttempts == 30

Clients == {"c1", "c2"}
FhirIds == {"A1", "A2"}
Phones == {"912345678"}
Timestamps == 1..MaxTime
CallIds == 1..MaxCalls

\* An optional value (v.optional, or a possibly-null React state) is the
\* empty tuple when undefined and a one-element tuple when defined.
None == <<>>
Some(x) == <<x>>

\* The four literals of the outcome union.
Outcomes == {"pending", "answered", "no_answer", "failed"}

\* What GET /call-status/{callSid} can give the poller: the fetch or the
\* JSON parsing throws, the body has no outcome, or the body has an
\* outcome string; the client does not check the string against the enum,
\* so "busy" stands for any string outside it.
StatusResponses == {"throw", "none", "pending", "answered", "no_answer", "failed", "busy"}

\* ------------------------------------------------- the appointments table
\* The fields of an appointment document that the call handlers read or
\* write and those the sync resolves by nested fetches; fhirId is required,
\* the others are optional.
OptionalFields ==
  {"patientPhone", "contacted", "callHistory",
   "patientId", "patientName",
   "serviceRequestId", "serviceRequestCode", "serviceRequestCategory",
   "organizationId", "organizationName"}
DocFields == {"fhirId"} \cup OptionalFields

\* .withIndex("by_fhirId", q => q.eq("fhirId", fhirId)).first(): position
\* of the first document with that fhirId, 0 when there is none.
RECURSIVE firstFrom(_, _, _)
firstFrom(table, fhirId, i) ==
  IF i > Len(table) THEN 0
  ELSE IF table[i].fhirId = fhirId THEN i
  ELSE firstFrom(table, fhirId, i + 1)

getByFhirId(table, fhirId) == firstFrom(table, fhirId, 1)

\* Arguments cross the function boundary as JSON: a field whose value is
\* undefined is not part of the object the handler receives.
definedArgs(args) ==
  [f \in {g \in DOMAIN args : g = "fhirId" \/ args[g] # None} |-> args[f]]

\* ctx.db.patch(id, fields): shallow merge, fields not named are kept.
patch(doc, fields) ==
  [f \in DOMAIN doc |-> IF f \in DOMAIN fields THEN fields[f] ELSE doc[f]]

\* ctx.db.insert("appointments", args): fields not given are undefined.
insert(table, fields) ==
  Append(table, [f \in DocFields |-> IF f \in DOMAIN fields THEN fields[f] ELSE None])

\* ctx.db.replace-like overwrite, the slip the frame claims guard against.
upsert_replace(table, args) ==
  LET existing == getByFhirId(table, args.fhirId)
      fields == definedArgs(args) IN
  IF existing # 0
    THEN [table EXCEPT ![existing] =
            [f \in DocFields |-> IF f \in DOMAIN fields THEN fields[f] ELSE None]]
    ELSE insert(table, fields)

\* An upsert that does not look for the existing document.
upsert_insertAlways(table, args) == insert(table, definedArgs(args))

\* An upsert that writes every argument, undefined ones included, so that
\* a field whose argument is absent is unset.
upsert_writeUndefined(table, args) ==
  LET existing == getByFhirId(table, args.fhirId) IN
  IF existing # 0
    THEN [table EXCEPT ![existing] = patch(@, args)]
    ELSE insert(table, definedArgs(args))

\* appointments.upsert
upsert(table, args) ==
  LET existing == getByFhirId(table, args.fhirId)
      fields == definedArgs(args) IN
  IF existing # 0
    THEN [table EXCEPT ![existing] = patch(@, fields)]
    ELSE insert(table, fields)

\* The fields of a patient document the sync writes.
PatientFields == {"fhirId", "identifier", "givenName", "familyName", "phone"}

\* ctx.db.insert("patients", args)
patients_insert(table, fields) ==
  Append(table, [f \in PatientFields |-> IF f \in DOMAIN fields THEN fields[f] ELSE None])

\* A patients.upsert whose lookup never finds the document.
patients_upsert_insertAlways(table, args) == patients_insert(table, definedArgs(args))

\* patients.upsert
patients_upsert(table, args) ==
  LET existing == getByFhirId(table, args.fhirId)
      fields == definedArgs(args) IN
  IF existing # 0
    THEN [table EXCEPT ![existing] = patch(@, fields)]
    ELSE patients_insert(table, fields)

\* A markContacted that creates the appointment it does not find.
markContacted_insertMissing(table, args) ==
  LET appointment == getByFhirId(table, args.fhirId) IN
  IF appointment # 0
    THEN [table EXCEPT ![appointment] = patch(@, [contacted |-> Some(args.contacted)])]
    ELSE insert(table, [fhirId |-> args.fhirId, contacted |-> Some(args.contacted)])

\* appointments.markContacted
markContacted(table, args) ==
  LET appointment == getByFhirId(table, args.fhirId) IN
  IF appointment # 0
    THEN [table EXCEPT ![appointment] = patch(@, [contacted |-> Some(args.contacted)])]
    ELSE table

\* appointment.callHistory || []
historyOrEmpty(doc) == IF doc.callHistory = None THEN <<>> ELSE doc.callHistory[1]

\* recordCall that puts the new record first.
recordCall_prepend(table, args) ==
  LET appointment == getByFhirId(table, args.fhirId) IN
  IF appointment # 0
    THEN [table EXCEPT ![appointment] =
            patch(@, [callHistory |-> Some(<<[timestamp |-> args.timestamp,
                                              callSid |-> args.callSid,
                                              outcome |-> "pending"]>>
                                           \o historyOrEmpty(table[appointment])),
                      contacted |-> Some(TRUE)])]
    ELSE table

\* recordCall that rebuilds the history from the new record only.
recordCall_overwrite(table, args) ==
  LET appointment == getByFhirId(table, args.fhirId) IN
  IF appointment # 0
    THEN [table EXCEPT ![appointment] =
            patch(@, [callHistory |-> Some(<<[timestamp |-> args.timestamp,
                                              callSid |-> args.callSid,
                                              outcome |-> "pending"]>>),
                      contacted |-> Some(TRUE)])]
    ELSE table

\* recordCall that appends and leaves the contacted flag as it is.
recordCall_keepContacted(table, args) ==
  LET appointment == getByFhirId(table, args.fhirId) IN
  IF appointment # 0
    THEN [table EXCEPT ![appointment] =
            patch(@, [callHistory |-> Some(Append(historyOrEmpty(table[appointment]),
                                                  [timestamp |-> args.timestamp,
                                                   callSid |-> args.callSid,
                                                   outcome |-> "pending"]))])]
    ELSE table

\* appointments.recordCall
recordCall(table, args) ==
  LET appointment == getByFhirId(table, args.fhirId) IN
  IF appointment # 0
    THEN LET currentHistory == historyOrEmpty(table[appointment])
             newCall == [timestamp |-> args.timestamp,
                         callSid |-> args.callSid,
                         outcome |-> "pending"] IN
         [table EXCEPT ![appointment] =
            patch(@, [callHistory |-> Some(Append(currentHistory, newCall)),
                      contacted |-> Some(TRUE)])]
    ELSE table

\* A validator that lets every string through.
outcomeValidator_any(outcome) == TRUE

\* The args validator of updateCallOutcome: v.union of the four literals.
outcomeValidator(outcome) == outcome \in Outcomes

\* An updateCallOutcome that moves an index past the end to the last record.
updateCallOutcome_clamp(table, args) ==
  LET appointment == getByFhirId(table, args.fhirId) IN
  IF appointment # 0 /\ table[appointment].callHistory # None
    THEN LET updatedHistory == table[appointment].callHistory[1]
             index == IF args.callIndex < Len(updatedHistory)
                        THEN args.callIndex ELSE Len(updatedHistory) - 1 IN
         IF index >= 0
           THEN [table EXCEPT ![appointment] =
                   patch(@, [callHistory |->
                     Some([updatedHistory EXCEPT ![index + 1] =
                             [@ EXCEPT !.outcome = args.outcome]])])]
           ELSE table
    ELSE table

\* An updateCallOutcome that keeps the history only up to the record it
\* writes, as if built from the history of the time the call was placed.
updateCallOutcome_truncate(table, args) ==
  LET appointment == getByFhirId(table, args.fhirId) IN
  IF appointment # 0 /\ table[appointment].callHistory # None
    THEN LET updatedHistory == table[appointment].callHistory[1] IN
         IF args.callIndex >= 0 /\ args.callIndex < Len(updatedHistory)
           THEN [table EXCEPT ![appointment] =
                   patch(@, [callHistory |->
                     Some([SubSeq(updatedHistory, 1, args.callIndex + 1)
                             EXCEPT ![args.callIndex + 1] =
                               [@ EXCEPT !.outcome = args.outcome]])])]
           ELSE table
    ELSE table

\* updateCallOutcome that never writes.
updateCallOutcome_noop(table, args) == table

\* An updateCallOutcome that resolves pending records only: a record that
\* is answered, no_answer or failed is left as it is.
updateCallOutcome_pendingOnly(table, args) ==
  LET appointment == getByFhirId(table, args.fhirId) IN
  IF appointment # 0 /\ table[appointment].callHistory # None
    THEN LET updatedHistory == table[appointment].callHistory[1] IN
         IF args.callIndex >= 0 /\ args.callIndex < Len(updatedHistory)
              /\ updatedHistory[args.callIndex + 1].outcome = "pending"
           THEN [table EXCEPT ![appointment] =
                   patch(@, [callHistory |->
                     Some([updatedHistory EXCEPT ![args.callIndex + 1] =
                             [@ EXCEPT !.outcome = args.outcome]])])]
           ELSE table
    ELSE table

\* appointments.updateCallOutcome (handler); callIndex counts from 0.
updateCallOutcome(table, args) ==
  LET appointment == getByFhirId(table, args.fhirId) IN
  IF appointment # 0 /\ table[appointment].callHistory # None
    THEN LET updatedHistory == table[appointment].callHistory[1] IN
         IF args.callIndex >= 0 /\ args.callIndex < Len(updatedHistory)
           THEN [table EXCEPT ![appointment] =
                   patch(@, [callHistory |->
                     Some([updatedHistory EXCEPT ![args.callIndex + 1] =
                             [@ EXCEPT !.outcome = args.outcome]])])]
           ELSE table
    ELSE table

\* useQuery(api.appointments.list) as the handlers use it.  Of a result
\* they read patientPhone (the call buttons are rendered only with it),
\* contacted and callHistory.length.  No mutation removes a document or a
\* phone, so a result that shows a phone implies that the table has it:
\* the guards read the phone from the table, and a browser's view keeps
\* only the call-history length of each appointment, which does go stale.
listView(table) ==
  [a \in FhirIds |->
     LET i == getByFhirId(table, a) IN
     IF i = 0 THEN 0 ELSE Len(historyOrEmpty(table[i]))]

\* The table has an appointment a with a phone.
hasPhone(table, a) ==
  LET i == getByFhirId(table, a) IN i # 0 /\ table[i].patientPhone # None

\* -------------------------------------------------- the clinical source
\* Requests of one sync run that fail.
MaxFailures == 1

\* The invocations of syncFhirData.
SyncIds == {1, 2, 3}

\* A FHIR reference "Type/id" as its segments.
Ref(type, id) == <<type, id>>

\* extractIdFromReference: reference.split("/").pop()
extractIdFromReference(reference) == reference[Len(reference)]

\* ref.includes("ServiceRequest")
includes(reference, word) == \E i \in 1..Len(reference) : reference[i] = word

\* GET /Appointment: the entries of the bundle.  A1 is based on two service
\* requests and has a patient and a practitioner role; A2 has the same
\* patient and nothing else.
Bundle ==
  <<[id |-> "A1", contacted |-> Some(FALSE),
     basedOn |-> <<Ref("ServiceRequest", "S1"), Ref("ServiceRequest", "S2")>>,
     participant |-> <<[type |-> "Patient", reference |-> Ref("Patient", "P1")],
                       [type |-> "PractitionerRole",
                        reference |-> Ref("PractitionerRole", "R1")]>>],
    [id |-> "A2", contacted |-> None,
     basedOn |-> <<>>,
     participant |-> <<[type |-> "Patient", reference |-> Ref("Patient", "P1")]>>]>>

\* GET /{resourceType}/{id}: what the source holds.
ServiceRequest ==
  [S1 |-> [code |-> Some("Control"), category |-> Some("Cardiologia")],
   S2 |-> [code |-> Some("Examen"), category |-> Some("Laboratorio")]]
Patient ==
  [P1 |-> [given |-> "Ana", family |-> "Rojas", telecom |-> Some("912345678"),
           identifier |-> Some("11111111-1")]]
PractitionerRole == [R1 |-> [organization |-> Ref("Organization", "O1")]]
Organization == [O1 |-> [name |-> Some("Hospital")]]

\* The requests of one run: the token exchange, the bundle, the nested
\* fetches and the two upsert mutations, each named with the entry it is
\* made for.  A mutation request fails when the backend rejects it: an
\* argument the validator refuses (an appointment without start or end, a
\* value of another type) or an error of the database; the upserts of the
\* first entry are the ones that may fail.
FetchKeys ==
  {<<"Auth">>, <<"Appointment">>,
   <<"A1", "ServiceRequest", "S1">>, <<"A1", "ServiceRequest", "S2">>,
   <<"A1", "Patient", "P1">>,
   <<"A1", "PractitionerRole", "R1">>, <<"A1", "Organization", "O1">>,
   <<"A2", "Patient", "P1">>,
   <<"A1", "patients.upsert", "P1">>,
   <<"A1", "appointments.upsert", "A1">>}

\* The sets of requests that fail in one run.
Outages == {o \in SUBSET FetchKeys : Cardinality(o) <= MaxFailures}

\* ------------------------------------------------------------ syncFhirData
\* A run that has not been invoked.  pc is the await the run is at; the
\* other fields are the handler's local variables.
idleRun ==
  [pc |-> "idle",
   outage |-> {},             \* the requests of this run that fail
   after |-> {},              \* the runs that had ended when this one began
   entry |-> 0, basedOn |-> 0, participant |-> 0,     \* loop positions
   contacted |-> None,
   serviceRequestId |-> None, serviceRequestCode |-> None,
   serviceRequestCategory |-> None,
   patientId |-> None, patientName |-> None, patientPhone |-> None,
   organizationId |-> None, organizationName |-> None,
   patient |-> None,          \* const patient, between its fetch and its upsert
   fetches |-> 0,             \* fetchResource calls issued
   results |-> [appointments |-> 0, patients |-> 0]]

\* The request of run rn for a resource of its current entry fails.
fails(rn, type, id) == <<Bundle[rn.entry].id, type, id>> \in rn.outage

\* for (const participant of appointment.participant || []), from position
\* from: up to the next await, which is the fetch of a patient or of a
\* practitioner role, or the appointment upsert after the loop.
scanParticipants(rn, from) ==
  LET all == Bundle[rn.entry].participant
      hits == {p \in from..Len(all) : all[p].type \in {"Patient", "PractitionerRole"}} IN
  IF hits = {}
    THEN [rn EXCEPT !.pc = "appointmentUpsert", !.participant = Len(all) + 1]
    ELSE LET p == CHOOSE p \in hits : \A q \in hits : p <= q IN
         IF all[p].type = "Patient"
           THEN [rn EXCEPT !.pc = "patient", !.participant = p, !.fetches = @ + 1,
                           !.patientId = Some(extractIdFromReference(all[p].reference))]
           ELSE [rn EXCEPT !.pc = "practitionerRole", !.participant = p,
                           !.fetches = @ + 1]

\* for (const basedOn of appointment.basedOn || []), from position from: up
\* to the fetch of the next service request, or on to the participants.
scanBasedOn(rn, from) ==
  LET all == Bundle[rn.entry].basedOn
      hits == {b \in from..Len(all) : includes(all[b], "ServiceRequest")} IN
  IF hits = {}
    THEN scanParticipants([rn EXCEPT !.basedOn = Len(all) + 1], 1)
    ELSE LET b == CHOOSE b \in hits : \A c \in hits : b <= c IN
         [rn EXCEPT !.pc = "serviceRequest", !.basedOn = b, !.fetches = @ + 1,
                    !.serviceRequestId = Some(extractIdFromReference(all[b]))]

\* for (const entry of appointmentsBundle.entry || []), at entry e: the
\* locals are declared anew, contacted is read from the extensions, and
\* the run goes on to its first await; after the last entry it returns.
enterEntry(rn, e) ==
  IF e > Len(Bundle)
    THEN [idleRun EXCEPT !.pc = "done", !.outage = rn.outage, !.after = rn.after,
                         !.entry = e, !.fetches = rn.fetches, !.results = rn.results]
    ELSE scanBasedOn([idleRun EXCEPT !.outage = rn.outage, !.after = rn.after,
                                     !.entry = e, !.contacted = Bundle[e].contacted,
                                     !.fetches = rn.fetches, !.results = rn.results], 1)

\* ------------------------------------------------------ mutation requests
\* No mutation request has been handled.
\* replaced is the outcome the record addressed by an updateCallOutcome had
\* when the request arrived, "none" when there was no such record;
\* patientPhone is an argument of an upsert, contacted one of an upsert or
\* of a markContacted.
noRequest ==
  [mutation |-> "none", fhirId |-> "none", callIndex |-> 0, outcome |-> "none",
   replaced |-> "none", patientPhone |-> None, contacted |-> None, error |-> FALSE]

\* The callIndex arguments tried: v.number() takes any, in range or not.
CallIndexes == (0 - 1)..MaxCalls

\* The mutation updateCallOutcome as a client gets it: the args validator
\* rejects the request with an error, else the handler runs; the handler
\* has no throw, so it ends without an error.
updateCallOutcomeMutation(table, args) ==
  IF outcomeValidator(args.outcome)
    THEN [table |-> updateCallOutcome(table, args), error |-> FALSE]
    ELSE [table |-> table, error |-> TRUE]

\* ------------------------------------------------------------------ state
VARIABLES
  appointments,    \* the appointments table, documents in insertion order
  view,            \* view[c][a]: callHistory length of a in browser c's list result
  calling,         \* calling[c][a]: AppointmentCard state "calling"
  activeCallSid,   \* activeCallSid[c][a]: AppointmentCard state, None = null
  sidebarCalling,  \* sidebarCalling[c]: App state, None = null
  call,            \* call[k]: the k-th run of handleCall / handleSidebarCall
                   \* and, for a card, the poller it starts
  callsLeft,       \* call initiations the run still allows
  overridesLeft,   \* manual outcome corrections the run still allows
  upstream,        \* the appointments of the clinical source's bundle
  pendingCap,      \* unresolved status answers one poller can get in this run
  patients,        \* the patients table, documents in insertion order
  run,             \* run[r]: the r-th invocation of the syncFhirData action
  request,         \* the mutation request the backend handled last
  phoneArg,        \* a patientPhone string handed to formatChileanPhone
  formatted,       \* what formatChileanPhone returned for it, None before
  cancelled        \* the calls the provider has ended on a cancel request

vars == <<appointments, view, calling, activeCallSid, sidebarCalling, call,
          callsLeft, overridesLeft, upstream, pendingCap,
          patients, run, request, phoneArg, formatted, cancelled>>

\* What the browsers' call handlers never touch.
outside == <<patients, run, request, phoneArg, formatted>>

\* A handler run that has not started.  pc is the await the run is at:
\*   "record"  awaiting recordCall
\*   "poll"    poll() scheduled or its status fetch in flight
\*   "commit"  awaiting updateCallOutcome
\*   "done"    nothing scheduled any more; stop says by which path
\* attempts and queries are the poller's counters while it polls; once it
\* has stopped polling its closure is dead and they are back at 0.
idleCall ==
  [pc |-> "idle", stop |-> "none", client |-> "none", origin |-> "none",
   fhirId |-> "none",
   callHistoryLength |-> 0,   \* appointment.callHistory?.length || 0 of the
                              \* appointment prop the handler closed over
   callSid |-> 0, timestamp |-> 0,
   callIndex |-> 0,
   attempts |-> 0,            \* let attempts
   queries |-> 0,             \* status queries issued by the poller so far
   observed |-> "none"]       \* statusData.outcome that ended the polling

Init ==
  /\ appointments = <<>>
  /\ view = [c \in Clients |-> listView(<<>>)]
  /\ calling = [c \in Clients |-> [a \in FhirIds |-> FALSE]]
  /\ activeCallSid = [c \in Clients |-> [a \in FhirIds |-> None]]
  /\ sidebarCalling = [c \in Clients |-> None]
  /\ call = [k \in CallIds |-> idleCall]
  /\ overridesLeft = MaxOverrides
  /\ patients = <<>>
  /\ run = [r \in SyncIds |-> idleRun]
  /\ request = noRequest
  /\ phoneArg = <<>>
  /\ formatted = None
  /\ cancelled = {}
  \* Either several calls for one appointment, with pollers that resolve
  \* early, or one call among two appointments, with a poller that may run
  \* up to the attempt ceiling.
  /\ \/ callsLeft = MaxCalls /\ pendingCap = MaxPendingPolls /\ upstream = {"A1"}
     \/ callsLeft = 1 /\ pendingCap = maxAttempts /\ upstream = FhirIds

\* The next unused handler run.
nextCall == CHOOSE k \in CallIds : call[k].pc = "idle" /\ \A j \in 1..(k - 1) : call[j].pc # "idle"

\* The bounds of the run, which only the actions they bound change.
budgets == <<callsLeft, overridesLeft, upstream, pendingCap>>

\* The sync action's appointments.upsert mutation for one bundle entry.
Upsert(a, phone, contacted) ==
  /\ a \in upstream
  /\ appointments' = upsert(appointments,
                            [fhirId |-> a, patientPhone |-> phone, contacted |-> contacted])
  /\ appointments' # appointments
  /\ UNCHANGED <<view, calling, activeCallSid, sidebarCalling, call, budgets>>
  /\ UNCHANGED <<outside, cancelled>>

\* The reactive list query delivers the current table to browser c.
QueryUpdate(c) ==
  /\ view[c] # listView(appointments)
  /\ view' = [view EXCEPT ![c] = listView(appointments)]
  /\ UNCHANGED <<appointments, calling, activeCallSid, sidebarCalling, call, budgets>>
  /\ UNCHANGED <<outside, cancelled>>

\* handleToggleContacted: markContacted with the negation of the contacted
\* flag the card shows.  The card may show any earlier value of the flag,
\* so the argument is either boolean.
HandleToggleContacted(c, a, contacted) ==
  /\ getByFhirId(appointments, a) # 0
  /\ appointments' = markContacted(appointments, [fhirId |-> a, contacted |-> contacted])
  /\ appointments' # appointments
  /\ view' = [view EXCEPT ![c] = listView(appointments')]
  /\ UNCHANGED <<calling, activeCallSid, sidebarCalling, call, budgets>>
  /\ UNCHANGED <<outside, cancelled>>

\* CallHistoryItem.handleOutcomeChange: the manual override, for a record
\* the card shows at position index.
HandleOutcomeChange(c, a, index, newOutcome) ==
  /\ overridesLeft > 0
  /\ overridesLeft' = overridesLeft - 1
  /\ index < view[c][a]
  /\ outcomeValidator(newOutcome)
  /\ appointments' = updateCallOutcome(appointments,
       [fhirId |-> a, callIndex |-> index, outcome |-> newOutcome])
  /\ view' = [view EXCEPT ![c] = listView(appointments')]
  /\ UNCHANGED <<calling, activeCallSid, sidebarCalling, call, callsLeft, upstream, pendingCap>>
  /\ UNCHANGED <<outside, cancelled>>

\* A handleCall that goes on to recordCall whatever POST /call answered.
HandleCall_recordAlways(c, a, accepted) ==
  /\ callsLeft > 0
  /\ callsLeft' = callsLeft - 1
  /\ hasPhone(appointments, a)
  /\ ~calling[c][a]
  /\ activeCallSid[c][a] = None
  /\ call' = [call EXCEPT ![nextCall] =
       [idleCall EXCEPT !.pc = "record", !.client = c, !.origin = "card",
                        !.stop = IF accepted THEN "none" ELSE "call-failed",
                        !.fhirId = a, !.callHistoryLength = view[c][a],
                        !.callSid = nextCall]]
  /\ calling' = [calling EXCEPT ![c][a] = TRUE]
  /\ activeCallSid' = [activeCallSid EXCEPT ![c][a] = Some(nextCall)]
  /\ UNCHANGED <<appointments, view, sidebarCalling, overridesLeft, upstream, pendingCap>>
  /\ UNCHANGED <<outside, cancelled>>

\* handleCall up to the await of recordCall.  The button is rendered only
\* with a phone and is disabled while calling or with an active call.  The
\* handler closes over the appointment of the render it was clicked in.
\* POST /call answers OK with the provider's call identifier (unique per
\* call): the card sets activeCallSid and issues recordCall, calling stays
\* set until finally.  Or POST /call fails or
\* answers non-OK: catch and finally, nothing is recorded.
HandleCall(c, a, accepted) ==
  /\ callsLeft > 0
  /\ callsLeft' = callsLeft - 1
  /\ hasPhone(appointments, a)
  /\ ~calling[c][a]
  /\ activeCallSid[c][a] = None
  /\ IF accepted
       THEN /\ call' = [call EXCEPT ![nextCall] =
                 [idleCall EXCEPT !.pc = "record", !.client = c, !.origin = "card",
                                  !.fhirId = a, !.callHistoryLength = view[c][a],
                                  !.callSid = nextCall]]
            /\ calling' = [calling EXCEPT ![c][a] = TRUE]
            /\ activeCallSid' = [activeCallSid EXCEPT ![c][a] = Some(nextCall)]
       ELSE /\ call' = [call EXCEPT ![nextCall] =
                 [idleCall EXCEPT !.pc = "done", !.stop = "call-failed", !.origin = "card",
                                  !.fhirId = a]]
            /\ UNCHANGED <<calling, activeCallSid>>
  /\ UNCHANGED <<appointments, view, sidebarCalling, overridesLeft, upstream, pendingCap>>
  /\ UNCHANGED <<outside, cancelled>>

\* handleSidebarCall up to the await of recordCall; its button is disabled
\* only while sidebarCalling names the appointment.
HandleSidebarCall(c, a, accepted) ==
  /\ callsLeft > 0
  /\ callsLeft' = callsLeft - 1
  /\ hasPhone(appointments, a)
  /\ sidebarCalling[c] # Some(a)
  /\ IF accepted
       THEN /\ call' = [call EXCEPT ![nextCall] =
                 [idleCall EXCEPT !.pc = "record", !.client = c, !.origin = "sidebar",
                                  !.fhirId = a, !.callHistoryLength = view[c][a],
                                  !.callSid = nextCall]]
            /\ sidebarCalling' = [sidebarCalling EXCEPT ![c] = Some(a)]
       ELSE /\ call' = [call EXCEPT ![nextCall] =
                 [idleCall EXCEPT !.pc = "done", !.stop = "call-failed", !.origin = "sidebar",
                                  !.fhirId = a]]
            \* finally: setSidebarCalling(null)
            /\ sidebarCalling' = [sidebarCalling EXCEPT ![c] = None]
  /\ UNCHANGED <<appointments, view, calling, activeCallSid, overridesLeft, upstream, pendingCap>>
  /\ UNCHANGED <<outside, cancelled>>

\* recordCall, issued with the reading now of the browser's clock, commits
\* and its promise resolves; the browser then has a list result that
\* includes it.  The card takes the call index from the
\* appointment it closed over and starts the poller; the sidebar starts
\* none.  finally resets the calling flag.
RecordCallDone(k, now) ==
  /\ call[k].pc = "record"
  /\ appointments' = recordCall(appointments,
       [fhirId |-> call[k].fhirId, callSid |-> call[k].callSid, timestamp |-> now])
  /\ view' = [view EXCEPT ![call[k].client] = listView(appointments')]
  /\ IF call[k].origin = "card"
       THEN /\ call' = [call EXCEPT ![k].pc = "poll", ![k].timestamp = now,
                                    ![k].callIndex = call[k].callHistoryLength]
            /\ calling' = [calling EXCEPT ![call[k].client][call[k].fhirId] = FALSE]
            /\ UNCHANGED sidebarCalling
       ELSE /\ call' = [call EXCEPT ![k].pc = "done", ![k].timestamp = now,
                                    ![k].stop = "recorded"]
            /\ sidebarCalling' = [sidebarCalling EXCEPT ![call[k].client] = None]
            /\ UNCHANGED calling
  /\ UNCHANGED <<activeCallSid, budgets>>
  /\ UNCHANGED <<outside, cancelled>>

\* attempts <= maxAttempts: one query too many.
pollAgain_inclusive(attempts) == attempts <= maxAttempts

\* if (attempts < maxAttempts) setTimeout(poll, 2000)
pollAgain(attempts) == attempts < maxAttempts

\* A ceiling branch that asserts failure.
giveUp_forceFailed(table, fhirId, callIndex) ==
  updateCallOutcome(table, [fhirId |-> fhirId, callIndex |-> callIndex, outcome |-> "failed"])

\* The ceiling branch of poll: it issues no mutation.
giveUp(table, fhirId, callIndex) == table

\* GET /call-status/{callSid}: what the endpoint can answer for call k.  A
\* call cancelled before it was resolved is reported as failed once the
\* provider has ended it, and as unresolved until then.
callStatus(k) ==
  IF k \in cancelled
    THEN {"throw", "none", "pending", "failed"}
    ELSE StatusResponses

\* One run of poll() up to its return or to the await of updateCallOutcome:
\* the status fetch and what the response leads to.
PollStatus(k, response) ==
  /\ call[k].pc = "poll"
  /\ response \in callStatus(k)
  /\ CASE response = "throw" ->
            \* catch: logged; nothing is rescheduled, nothing is reset
            /\ call' = [call EXCEPT ![k].queries = 0, ![k].attempts = 0,
                                    ![k].pc = "done", ![k].stop = "poll-error"]
            /\ UNCHANGED <<appointments, activeCallSid>>
       [] response \in {"none", "pending"} ->
            /\ call[k].attempts < pendingCap
            /\ IF pollAgain(call[k].attempts + 1)
                 THEN /\ call' = [call EXCEPT ![k].queries = @ + 1, ![k].attempts = @ + 1]
                      /\ UNCHANGED <<appointments, activeCallSid>>
                 ELSE /\ call' = [call EXCEPT ![k].queries = 0, ![k].attempts = 0,
                                              ![k].pc = "done", ![k].stop = "ceiling"]
                      /\ appointments' = giveUp(appointments, call[k].fhirId, call[k].callIndex)
                      /\ activeCallSid' =
                           [activeCallSid EXCEPT ![call[k].client][call[k].fhirId] = None]
       [] OTHER ->
            \* statusData.outcome && statusData.outcome !== "pending"
            /\ call' = [call EXCEPT ![k].queries = 0, ![k].attempts = 0,
                                    ![k].observed = response, ![k].pc = "commit"]
            /\ UNCHANGED <<appointments, activeCallSid>>
  /\ UNCHANGED <<view, calling, sidebarCalling, budgets>>
  /\ UNCHANGED <<outside, cancelled>>

\* The poller's updateCallOutcome and what follows it.  The validator
\* rejects an outcome outside the enum: the mutation throws, the catch
\* logs, and the lines after the await do not run.  nextPc is where the
\* poller is after the commit branch.
CommitOutcomeThen(k, nextPc) ==
  /\ call[k].pc = "commit"
  /\ IF outcomeValidator(call[k].observed)
       THEN /\ appointments' = updateCallOutcome(appointments,
                 [fhirId |-> call[k].fhirId, callIndex |-> call[k].callIndex,
                  outcome |-> call[k].observed])
            /\ view' = [view EXCEPT ![call[k].client] = listView(appointments')]
            /\ activeCallSid' =
                 [activeCallSid EXCEPT ![call[k].client][call[k].fhirId] = None]
            /\ call' = [call EXCEPT ![k].pc = nextPc, ![k].stop = "committed"]
       ELSE /\ call' = [call EXCEPT ![k].pc = "done", ![k].stop = "commit-error"]
            /\ UNCHANGED <<appointments, view, activeCallSid>>
  /\ UNCHANGED <<calling, sidebarCalling, budgets>>
  /\ UNCHANGED <<outside, cancelled>>

\* The commit branch without its return: the poller goes on polling.
CommitOutcome_noReturn(k) == CommitOutcomeThen(k, "poll")

\* The commit branch of poll: commit, reset activeCallSid, return.
CommitOutcome(k) == CommitOutcomeThen(k, "done")

\* handleCancelCall: POST /cancel-call/{activeCallSid}.  The request
\* succeeds only for a call that is not resolved yet, and the provider
\* then ends that call; whatever the request gives, finally resets
\* activeCallSid.  The handler issues no mutation and does not stop the
\* poller.
HandleCancelCall(c, a, success) ==
  /\ activeCallSid[c][a] # None
  /\ LET k == activeCallSid[c][a][1] IN
       IF success
         THEN /\ \/ call[k].pc \in {"record", "poll"}
                 \/ call[k].pc = "done" /\ call[k].stop \in {"poll-error", "ceiling"}
              /\ cancelled' = cancelled \cup {k}
         ELSE UNCHANGED cancelled
  /\ activeCallSid' = [activeCallSid EXCEPT ![c][a] = None]
  /\ UNCHANGED <<appointments, view, calling, sidebarCalling, call, budgets>>
  /\ UNCHANGED outside

Next ==
  \/ \E a \in FhirIds, phone \in {None} \cup {Some(p) : p \in Phones},
        contacted \in {None, Some(TRUE), Some(FALSE)} : Upsert(a, phone, contacted)
  \/ \E c \in Clients : QueryUpdate(c)
  \/ \E c \in Clients, a \in FhirIds, contacted \in BOOLEAN : HandleToggleContacted(c, a, contacted)
  \/ \E c \in Clients, a \in FhirIds, index \in 0..(MaxCalls - 1), newOutcome \in Outcomes :
        HandleOutcomeChange(c, a, index, newOutcome)
  \/ \E c \in Clients, a \in FhirIds, accepted \in BOOLEAN : HandleCall(c, a, accepted)
  \/ \E c \in Clients, a \in FhirIds, accepted \in BOOLEAN : HandleSidebarCall(c, a, accepted)
  \/ \E k \in CallIds, now \in Timestamps : RecordCallDone(k, now)
  \/ \E k \in CallIds, response \in StatusResponses : PollStatus(k, response)
  \/ \E k \in CallIds : CommitOutcome(k)
  \/ \E c \in Clients, a \in FhirIds, success \in BOOLEAN : HandleCancelCall(c, a, success)

Spec == Init /\ [][Next]_vars

\* One call among two appointments: a single poller runs up to the full
\* attempt ceiling.
InitOneCall == Init /\ callsLeft = 1

OneCall == InitOneCall /\ [][Next]_vars

\* The same, where every awaited updateCallOutcome of a poller completes.
FairOneCall ==
  InitOneCall /\ [][Next]_vars /\ \A k \in CallIds : WF_vars(CommitOutcome(k))

\* ------------------------------------------------------- the sync action
\* The state of the browsers and of the calls, which the sync does not
\* touch.
browsers ==
  <<view, calling, activeCallSid, sidebarCalling, call,
    callsLeft, overridesLeft, upstream, pendingCap, cancelled>>

\* Someone invokes the action; the requests of outage will fail in this
\* run.  The runs are invoked in the order of their numbers: the earlier
\* ones at any time, also while others are in progress, the last one when
\* the others have ended.
SyncStart(r, outage) ==
  /\ run[r].pc = "idle"
  /\ \A q \in SyncIds : q < r => run[q].pc # "idle"
  /\ (\A q \in SyncIds : q <= r) =>
        \A q \in SyncIds \ {r} : run[q].pc \in {"done", "failed"}
  /\ run' = [run EXCEPT ![r] =
       [idleRun EXCEPT !.pc = "auth", !.outage = outage,
                       !.after = {q \in SyncIds : run[q].pc \in {"done", "failed"}}]]
  /\ UNCHANGED <<appointments, patients, browsers, request, phoneArg, formatted>>

\* An authenticate that does not look at response.ok: the run goes on
\* with whatever the body gave as token.
Authenticate_ignoreStatus(r) ==
  /\ run[r].pc = "auth"
  /\ run' = [run EXCEPT ![r].pc = "bundle"]
  /\ UNCHANGED <<appointments, patients, browsers, request, phoneArg, formatted>>

\* const token = await authenticate(): a non-OK response throws, and
\* nothing in the handler catches it.
Authenticate(r) ==
  /\ run[r].pc = "auth"
  /\ run' = [run EXCEPT ![r].pc = IF <<"Auth">> \in run[r].outage THEN "failed" ELSE "bundle"]
  /\ UNCHANGED <<appointments, patients, browsers, request, phoneArg, formatted>>

\* const appointmentsBundle = await fetchAppointments(token), then the loop
\* up to its first await.
FetchAppointments(r) ==
  /\ run[r].pc = "bundle"
  /\ run' = [run EXCEPT ![r] =
       IF <<"Appointment">> \in run[r].outage
         THEN [@ EXCEPT !.pc = "failed"]
         ELSE enterEntry(@, 1)]
  /\ UNCHANGED <<appointments, patients, browsers, request, phoneArg, formatted>>

\* await fetchResource(token, "ServiceRequest", serviceRequestId) inside
\* try: code and category on success, a log line on failure.
FetchServiceRequest(r) ==
  /\ run[r].pc = "serviceRequest"
  /\ LET id == run[r].serviceRequestId[1] IN
     run' = [run EXCEPT ![r] =
       IF fails(@, "ServiceRequest", id)
         THEN scanBasedOn(@, @.basedOn + 1)
         ELSE scanBasedOn([@ EXCEPT !.serviceRequestCode = ServiceRequest[id].code,
                                    !.serviceRequestCategory = ServiceRequest[id].category],
                          @.basedOn + 1)]
  /\ UNCHANGED <<appointments, patients, browsers, request, phoneArg, formatted>>

\* A patient fetch after which patients.upsert is issued but not awaited:
\* the loop goes on while the upsert is in flight.
FetchPatient_noAwait(r) ==
  /\ run[r].pc = "patient"
  /\ LET id == run[r].patientId[1] IN
     run' = [run EXCEPT ![r] =
       IF fails(@, "Patient", id)
         THEN scanParticipants(@, @.participant + 1)
         ELSE scanParticipants([@ EXCEPT !.patient = Some(Patient[id]),
                                         !.patientName = Some(<<Patient[id].given, Patient[id].family>>),
                                         !.patientPhone = Patient[id].telecom],
                               @.participant + 1)]
  /\ UNCHANGED <<appointments, patients, browsers, request, phoneArg, formatted>>

\* await fetchResource(token, "Patient", patientId) inside try: on success
\* name and phone are set and the run awaits patients.upsert.
FetchPatient(r) ==
  /\ run[r].pc = "patient"
  /\ LET id == run[r].patientId[1] IN
     run' = [run EXCEPT ![r] =
       IF fails(@, "Patient", id)
         THEN scanParticipants(@, @.participant + 1)
         ELSE [@ EXCEPT !.pc = "patientUpsert",
                        !.patient = Some(Patient[id]),
                        !.patientName = Some(<<Patient[id].given, Patient[id].family>>),
                        !.patientPhone = Patient[id].telecom]]
  /\ UNCHANGED <<appointments, patients, browsers, request, phoneArg, formatted>>

\* await ctx.runMutation(api.patients.upsert, {...}); results.patients++,
\* inside the try of the patient fetch: a rejected upsert is logged by the
\* same catch, and the name and phone already read stay in the locals.
UpsertPatient(r) ==
  /\ run[r].pc = "patientUpsert"
  /\ IF fails(run[r], "patients.upsert", run[r].patientId[1])
       THEN /\ UNCHANGED patients
            /\ run' = [run EXCEPT ![r] =
                 scanParticipants([@ EXCEPT !.patient = None], @.participant + 1)]
       ELSE /\ patients' = patients_upsert(patients,
                 [fhirId |-> run[r].patientId[1],
                  identifier |-> run[r].patient[1].identifier,
                  givenName |-> Some(run[r].patient[1].given),
                  familyName |-> Some(run[r].patient[1].family),
                  phone |-> run[r].patientPhone])
            /\ run' = [run EXCEPT ![r] =
                 scanParticipants([@ EXCEPT !.patient = None, !.results.patients = @ + 1],
                                  @.participant + 1)]
  /\ UNCHANGED <<appointments, browsers, request, phoneArg, formatted>>

\* await fetchResource(token, "PractitionerRole", prId) inside try: with an
\* organization reference the run goes on to fetch the organization.
FetchPractitionerRole(r) ==
  /\ run[r].pc = "practitionerRole"
  /\ LET prId == extractIdFromReference(
                   Bundle[run[r].entry].participant[run[r].participant].reference)
         orgRef == PractitionerRole[prId].organization IN
     run' = [run EXCEPT ![r] =
       IF fails(@, "PractitionerRole", prId) \/ orgRef = <<>>
         THEN scanParticipants(@, @.participant + 1)
         ELSE [@ EXCEPT !.pc = "organization", !.fetches = @ + 1,
                        !.organizationId = Some(extractIdFromReference(orgRef))]]
  /\ UNCHANGED <<appointments, patients, browsers, request, phoneArg, formatted>>

\* await fetchResource(token, "Organization", organizationId) inside the
\* inner try.
FetchOrganization(r) ==
  /\ run[r].pc = "organization"
  /\ LET id == run[r].organizationId[1] IN
     run' = [run EXCEPT ![r] =
       IF fails(@, "Organization", id)
         THEN scanParticipants(@, @.participant + 1)
         ELSE scanParticipants([@ EXCEPT !.organizationName = Organization[id].name],
                               @.participant + 1)]
  /\ UNCHANGED <<appointments, patients, browsers, request, phoneArg, formatted>>

\* The arguments of the appointment upsert of a run, from its locals.
appointmentArgs(rn) ==
  [fhirId |-> Bundle[rn.entry].id,
   patientId |-> rn.patientId,
   patientName |-> rn.patientName,
   patientPhone |-> rn.patientPhone,
   contacted |-> rn.contacted,
   serviceRequestId |-> rn.serviceRequestId,
   serviceRequestCode |-> rn.serviceRequestCode,
   serviceRequestCategory |-> rn.serviceRequestCategory,
   organizationId |-> rn.organizationId,
   organizationName |-> rn.organizationName]

\* await ctx.runMutation(api.appointments.upsert, {...});
\* results.appointments++; then the next entry up to its first await.  The
\* call is outside every try: a rejected upsert throws out of the loop and
\* of the handler.
UpsertAppointment(r) ==
  /\ run[r].pc = "appointmentUpsert"
  /\ IF fails(run[r], "appointments.upsert", Bundle[run[r].entry].id)
       THEN /\ UNCHANGED appointments
            /\ run' = [run EXCEPT ![r].pc = "failed"]
       ELSE /\ appointments' = upsert(appointments, appointmentArgs(run[r]))
            /\ run' = [run EXCEPT ![r] =
                 enterEntry([@ EXCEPT !.results.appointments = @ + 1], @.entry + 1)]
  /\ UNCHANGED <<patients, browsers, request, phoneArg, formatted>>

\* No browser is open.
NoBrowsers ==
  /\ view = [c \in Clients |-> listView(<<>>)]
  /\ calling = [c \in Clients |-> [a \in FhirIds |-> FALSE]]
  /\ activeCallSid = [c \in Clients |-> [a \in FhirIds |-> None]]
  /\ sidebarCalling = [c \in Clients |-> None]
  /\ call = [k \in CallIds |-> idleCall]
  /\ cancelled = {}
  /\ callsLeft = 0 /\ overridesLeft = 0 /\ upstream = {} /\ pendingCap = 0

SyncInit ==
  /\ appointments = <<>>
  /\ patients = <<>>
  /\ run = [r \in SyncIds |-> idleRun]
  /\ request = noRequest
  /\ phoneArg = <<>>
  /\ formatted = None
  /\ NoBrowsers

SyncNext ==
  \/ \E r \in SyncIds, outage \in Outages : SyncStart(r, outage)
  \/ \E r \in SyncIds : Authenticate(r)
  \/ \E r \in SyncIds : FetchAppointments(r)
  \/ \E r \in SyncIds : FetchServiceRequest(r)
  \/ \E r \in SyncIds : FetchPatient(r)
  \/ \E r \in SyncIds : UpsertPatient(r)
  \/ \E r \in SyncIds : FetchPractitionerRole(r)
  \/ \E r \in SyncIds : FetchOrganization(r)
  \/ \E r \in SyncIds : UpsertAppointment(r)

\* Sync runs against a store that is empty at first, alone or two together.
SyncSpec == SyncInit /\ [][SyncNext]_vars

\* ------------------------------------------------- direct mutation calls
\* The mutations are public functions of the backend: a client can call
\* each with any arguments its validator accepts, and with others.
\* What these calls leave alone.
untouched ==
  <<view, calling, activeCallSid, sidebarCalling, call,
    callsLeft, overridesLeft, upstream, pendingCap, cancelled,
    patients, run, phoneArg, formatted>>

MutationUpsert(a, patientPhone, contacted) ==
  /\ a \in upstream
  /\ appointments' = upsert(appointments,
       [fhirId |-> a, patientPhone |-> patientPhone, contacted |-> contacted])
  /\ request' = [noRequest EXCEPT !.mutation = "upsert", !.fhirId = a,
                                  !.patientPhone = patientPhone, !.contacted = contacted]
  /\ UNCHANGED untouched

MutationMarkContacted(a, contacted) ==
  /\ appointments' = markContacted(appointments, [fhirId |-> a, contacted |-> contacted])
  /\ request' = [noRequest EXCEPT !.mutation = "markContacted", !.fhirId = a,
                                  !.contacted = Some(contacted)]
  /\ UNCHANGED untouched

\* The provider's call identifiers are unique and the callers' clocks
\* advance: the next number is used for both.  No history grows beyond
\* MaxCalls records.
MutationRecordCall(a) ==
  /\ LET i == getByFhirId(appointments, a)
         length == IF i = 0 THEN 0 ELSE Len(historyOrEmpty(appointments[i])) IN
       /\ length < MaxCalls
       /\ appointments' = recordCall(appointments,
            [fhirId |-> a, timestamp |-> length + 1, callSid |-> length + 1])
  /\ request' = [noRequest EXCEPT !.mutation = "recordCall", !.fhirId = a]
  /\ UNCHANGED untouched

MutationUpdateCallOutcome(a, callIndex, outcome) ==
  /\ LET result == updateCallOutcomeMutation(appointments,
                     [fhirId |-> a, callIndex |-> callIndex, outcome |-> outcome])
         i == getByFhirId(appointments, a)
         history == IF i = 0 THEN <<>> ELSE historyOrEmpty(appointments[i]) IN
       /\ appointments' = result.table
       /\ request' = [noRequest EXCEPT
                        !.mutation = "updateCallOutcome", !.fhirId = a,
                        !.callIndex = callIndex, !.outcome = outcome,
                        !.replaced = IF callIndex >= 0 /\ callIndex < Len(history)
                                       THEN history[callIndex + 1].outcome ELSE "none",
                        !.error = result.error]
  /\ UNCHANGED untouched

\* An empty store, no browser, no sync run; the source has appointment A1
\* only, so that A2 is never stored.
MutationInit ==
  /\ appointments = <<>>
  /\ patients = <<>>
  /\ run = [r \in SyncIds |-> idleRun]
  /\ request = noRequest
  /\ phoneArg = <<>>
  /\ formatted = None
  /\ view = [c \in Clients |-> listView(<<>>)]
  /\ calling = [c \in Clients |-> [a \in FhirIds |-> FALSE]]
  /\ activeCallSid = [c \in Clients |-> [a \in FhirIds |-> None]]
  /\ sidebarCalling = [c \in Clients |-> None]
  /\ call = [k \in CallIds |-> idleCall]
  /\ cancelled = {}
  /\ callsLeft = 0 /\ overridesLeft = 0 /\ upstream = {"A1"} /\ pendingCap = 0

MutationNext ==
  \/ \E a \in FhirIds, patientPhone \in {None} \cup {Some(p) : p \in Phones},
        contacted \in {None, Some(TRUE), Some(FALSE)} :
          MutationUpsert(a, patientPhone, contacted)
  \/ \E a \in FhirIds, contacted \in BOOLEAN : MutationMarkContacted(a, contacted)
  \/ \E a \in FhirIds : MutationRecordCall(a)
  \/ \E a \in FhirIds, callIndex \in CallIndexes, outcome \in Outcomes \cup {"busy"} :
        MutationUpdateCallOutcome(a, callIndex, outcome)

MutationSpec == MutationInit /\ [][MutationNext]_vars

\* ------------------------------------------------------ formatChileanPhone
\* A string is the sequence of its characters.
\* Characters a stored phone starts with are tried freely up to this length.
MaxHead == 4
\* Digits that follow them.
MaxBody == 10

\* \d
Digit == {"0", "1", "2", "3", "4", "5", "6", "7", "8", "9"}
isDigit(ch) == ch \in Digit

\* digits.startsWith(prefix)
startsWith(digits, prefix) ==
  /\ Len(digits) >= Len(prefix)
  /\ SubSeq(digits, 1, Len(prefix)) = prefix

\* A formatChileanPhone whose 8-digit branch forgets the mobile 9.
formatChileanPhone_noNine(phone) ==
  LET digits == SelectSeq(phone, isDigit) IN
  IF startsWith(digits, <<"5", "6">>) /\ Len(digits) = 11
    THEN <<"+">> \o digits
  ELSE IF Len(digits) = 9 /\ startsWith(digits, <<"9">>)
    THEN <<"+", "5", "6">> \o digits
  ELSE <<"+", "5", "6">> \o digits

\* formatChileanPhone: phone.replace(/\D/g, "") and the four returns.
formatChileanPhone(phone) ==
  LET digits == SelectSeq(phone, isDigit) IN
  IF startsWith(digits, <<"5", "6">>) /\ Len(digits) = 11
    THEN <<"+">> \o digits
  ELSE IF Len(digits) = 9 /\ startsWith(digits, <<"9">>)
    THEN <<"+", "5", "6">> \o digits
  ELSE IF Len(digits) = 8
    THEN <<"+", "5", "6", "9">> \o digits
  ELSE <<"+", "5", "6">> \o digits

\* The strings of at most n characters over a set of characters.
RECURSIVE StringsUpTo(_, _)
StringsUpTo(chars, n) ==
  IF n = 0 THEN {<<>>}
  ELSE LET shorter == StringsUpTo(chars, n - 1) IN
       shorter \cup {Append(s, ch) : s \in shorter, ch \in chars}

\* patientPhone values tried: telecom.value of the source is any string.
\* A head of country code, mobile 9, other digits and punctuation, then
\* the first digits of 123456780000, written together or as "1234 5678...".
HeadChars == {"+", " ", "5", "6", "9", "2"}
BodyDigits == <<"1", "2", "3", "4", "5", "6", "7", "8", "0", "0", "0", "0">>
spaced(body) ==
  IF Len(body) > 4 THEN SubSeq(body, 1, 4) \o <<" ">> \o SubSeq(body, 5, Len(body))
  ELSE body
PhoneStrings ==
  {head \o body :
     head \in StringsUpTo(HeadChars, MaxHead),
     body \in {SubSeq(BodyDigits, 1, n) : n \in 0..MaxBody}
                \cup {spaced(SubSeq(BodyDigits, 1, n)) : n \in 0..MaxBody}}

\* The call handlers' use of formatChileanPhone: for the body of POST /call,
\* reached only with a non-empty appointment.patientPhone.
FormatChileanPhone ==
  /\ phoneArg # <<>>
  /\ formatted = None
  /\ formatted' = Some(formatChileanPhone(phoneArg))
  /\ UNCHANGED <<appointments, patients, run, request, phoneArg, browsers>>

\* Any stored phone; nothing else is going on.
PhoneInit ==
  /\ phoneArg \in PhoneStrings
  /\ formatted = None
  /\ appointments = <<>>
  /\ patients = <<>>
  /\ run = [r \in SyncIds |-> idleRun]
  /\ request = noRequest
  /\ NoBrowsers

PhoneSpec == PhoneInit /\ [][FormatChileanPhone]_vars

\* ----------------------------------------------------------------- claims
\* The call history of appointment a in a table; empty without a document.
hist(table, a) ==
  LET i == getByFhirId(table, a) IN
  IF i = 0 THEN <<>> ELSE historyOrEmpty(table[i])

contactedOf(table, a) == table[getByFhirId(table, a)].contacted

\* Handler run k has had its recordCall committed.
recorded(k) ==
  \/ call[k].pc \in {"poll", "commit"}
  \/ call[k].pc = "done" /\ call[k].stop # "call-failed"

Terminal == {"answered", "no_answer", "failed"}

\* C1: the step in which a handler's recordCall commits appends exactly one
\* record {timestamp, callSid, outcome pending} at the end of the history of
\* its appointment, leaves every earlier record as it was, and sets
\* contacted to true.
RecordCallAppendsOne ==
  [][\A k \in CallIds :
       (call[k].pc = "record" /\ call'[k].pc # "record") =>
          /\ hist(appointments', call[k].fhirId) =
               Append(hist(appointments, call[k].fhirId),
                      [timestamp |-> call'[k].timestamp,
                       callSid |-> call[k].callSid,
                       outcome |-> "pending"])
          /\ contactedOf(appointments', call[k].fhirId) = Some(TRUE)]_vars

\* A recordCall has appended to a history that already had a record.
RecordCallAppendsOneWitness ==
  \E k \in CallIds :
    /\ recorded(k)
    /\ Len(hist(appointments, call[k].fhirId)) >= 2
    /\ hist(appointments, call[k].fhirId)[2].callSid = call[k].callSid
    /\ contactedOf(appointments, call[k].fhirId) = Some(TRUE)

\* C2: the call history of every appointment is as long as the number of
\* call initiations for it whose POST /call was accepted and whose
\* recordCall has committed, from whichever browser and button.
HistoryLengthIsCallCount ==
  \A a \in FhirIds :
    Len(hist(appointments, a)) =
      Cardinality({k \in CallIds : recorded(k) /\ call[k].fhirId = a})

\* Two browsers have each had a call recorded for the same appointment.
HistoryLengthIsCallCountWitness ==
  \E j, k \in CallIds :
    /\ recorded(j) /\ recorded(k)
    /\ call[j].fhirId = call[k].fhirId
    /\ call[j].client # call[k].client
    /\ Len(hist(appointments, call[k].fhirId)) = 2

\* C3: in every step, whichever operation takes it, the history of every
\* appointment keeps its length or grows, and the record at each position
\* keeps its timestamp and callSid.
HistoryIndexStable ==
  [][\A a \in FhirIds :
       /\ Len(hist(appointments', a)) >= Len(hist(appointments, a))
       /\ \A i \in 1..Len(hist(appointments, a)) :
            /\ hist(appointments', a)[i].timestamp = hist(appointments, a)[i].timestamp
            /\ hist(appointments', a)[i].callSid = hist(appointments, a)[i].callSid]_vars

\* Two records are in place after an outcome was corrected by hand and
\* after contacted was reset by markContacted or by a sync upsert.
HistoryIndexStableWitness ==
  \E a \in FhirIds :
    /\ Len(hist(appointments, a)) = 2
    /\ overridesLeft = 0
    /\ hist(appointments, a)[1].outcome \in Terminal
    /\ contactedOf(appointments, a) = Some(FALSE)

\* C4: the (appointment, callIndex) key a poller commits to is the record
\* of its own call: the record at its callIndex exists and carries the
\* callSid it polls.
PollerKeyIsOwnRecord ==
  \A k \in CallIds :
    call[k].pc \in {"poll", "commit"} =>
      /\ call[k].callIndex < Len(hist(appointments, call[k].fhirId))
      /\ hist(appointments, call[k].fhirId)[call[k].callIndex + 1].callSid = call[k].callSid

\* C5: a poller enters the await of updateCallOutcome only from a status
\* query that gave a non-pending outcome; the step that ends that await is
\* its only commit: it writes the observed outcome to the record at the
\* poller's callIndex and leaves the poller stopped; a stopped poller
\* issues nothing further.
PollerCommitsOnce ==
  [][\A k \in CallIds :
       /\ (call'[k].pc = "commit" /\ call[k].pc # "commit") =>
             /\ call[k].pc = "poll"
             /\ call'[k].observed \notin {"none", "pending", "throw"}
       /\ (call[k].pc = "commit" /\ call'[k] # call[k]) =>
             /\ call'[k].pc = "done"
             /\ call'[k].observed = call[k].observed
             /\ (call'[k].stop = "committed"
                   /\ call[k].callIndex < Len(hist(appointments, call[k].fhirId))) =>
                  hist(appointments', call[k].fhirId)[call[k].callIndex + 1].outcome
                    = call[k].observed
       /\ call[k].pc = "done" => call'[k] = call[k]]_vars

\* A poller has committed the outcome it observed and has stopped.
PollerCommitsOnceWitness ==
  \E k \in CallIds :
    /\ call[k].pc = "done" /\ call[k].stop = "committed"
    /\ call[k].observed \in Terminal
    /\ call[k].callIndex < Len(hist(appointments, call[k].fhirId))
    /\ hist(appointments, call[k].fhirId)[call[k].callIndex + 1].outcome = call[k].observed

\* C6: a poller issues a status query only when it has issued fewer than
\* maxAttempts before, each query that leaves it polling counts, and after
\* the query number maxAttempts no further one is scheduled.
PollerQueriesBounded ==
  [][\A k \in CallIds :
       (call[k].pc = "poll" /\ call'[k] # call[k]) =>
          /\ call[k].queries < maxAttempts
          /\ call'[k].pc = "poll" => call'[k].queries = call[k].queries + 1
          /\ call[k].queries = maxAttempts - 1 => call'[k].pc # "poll"]_vars

\* A poller has stopped at the ceiling.
PollerQueriesBoundedWitness ==
  \E k \in CallIds : call[k].pc = "done" /\ call[k].stop = "ceiling"

\* C7: the step in which a poller's last allowed query comes back
\* unresolved stops the poller without any write to the table; when that
\* was the only call and nobody corrected its record by hand, the record is
\* still pending after it.
CeilingLeavesPending ==
  [][\A k \in CallIds :
       (call[k].pc = "poll" /\ call[k].attempts = maxAttempts - 1
          /\ call'[k] # call[k] /\ call'[k].pc # "commit"
          /\ call'[k].stop # "poll-error") =>
          /\ call'[k].pc = "done" /\ call'[k].stop = "ceiling"
          /\ appointments' = appointments
          /\ (overridesLeft = MaxOverrides
                /\ \A j \in CallIds \ {k} : call[j].pc = "idle") =>
               hist(appointments', call[k].fhirId)
                 = <<[timestamp |-> call[k].timestamp, callSid |-> call[k].callSid,
                      outcome |-> "pending"]>>]_vars

\* The only poller gave up at the ceiling and its record is pending.
CeilingLeavesPendingWitness ==
  \E k \in CallIds :
    /\ call[k].pc = "done" /\ call[k].stop = "ceiling"
    /\ overridesLeft = MaxOverrides
    /\ hist(appointments, call[k].fhirId)
         = <<[timestamp |-> call[k].timestamp, callSid |-> call[k].callSid,
              outcome |-> "pending"]>>

\* C8: the step that ends a poller's updateCallOutcome changes the outcome
\* of no record that was answered, no_answer or failed before it.
PollerKeepsTerminal ==
  [][\A k \in CallIds :
       (call[k].pc = "commit" /\ call'[k].pc # "commit") =>
          \A a \in FhirIds : \A i \in 1..Len(hist(appointments, a)) :
             hist(appointments, a)[i].outcome \in Terminal =>
               hist(appointments', a)[i].outcome = hist(appointments, a)[i].outcome]_vars

\* The single call of the run was initiated from an empty history and its
\* status query has reported answered.
AnsweredObserved(k) ==
  /\ call[k].pc = "commit" /\ call[k].observed = "answered"
  /\ call[k].callHistoryLength = 0
  /\ \A j \in CallIds \ {k} : call[j].pc = "idle"

\* The history of the appointment of call k is the one record of that call,
\* answered.
AnsweredRecorded(k) ==
  hist(appointments, call[k].fhirId)
    = <<[timestamp |-> call[k].timestamp, callSid |-> call[k].callSid,
         outcome |-> "answered"]>>

\* C9: end to end, with one call initiated and recorded for a synced
\* appointment with a phone and an empty history: once its status query
\* has reported answered, the history of the appointment eventually is
\* exactly the one record {timestamp T, callSid S, outcome answered}.
EndToEndAnswered ==
  \A k \in CallIds : AnsweredObserved(k) ~> AnsweredRecorded(k)

\* The poller of the only call has committed answered and the history is
\* that one record.
EndToEndAnsweredWitness ==
  \E k \in CallIds :
    /\ call[k].pc = "done" /\ call[k].stop = "committed"
    /\ call[k].observed = "answered"
    /\ \A j \in CallIds \ {k} : call[j].pc = "idle"
    /\ AnsweredRecorded(k)

\* C10: every record of every stored call history has an outcome among
\* pending, answered, no_answer, failed.
OutcomesInEnum ==
  \A i \in 1..Len(appointments) :
    \A j \in 1..Len(historyOrEmpty(appointments[i])) :
      historyOrEmpty(appointments[i])[j].outcome \in Outcomes

\* A poller's commit of a string outside the enum was rejected.
OutcomesInEnumWitness ==
  \E k \in CallIds :
    /\ call[k].pc = "done" /\ call[k].stop = "commit-error"
    /\ call[k].observed \notin Outcomes
    /\ call[k].callIndex < Len(hist(appointments, call[k].fhirId))

\* C11: a step in which the backend handles an updateCallOutcome whose
\* outcome the validator accepts and whose callIndex is negative or not
\* below the length of the stored history (an appointment without history
\* or without document has length 0) leaves the table as it was and gives
\* the client no error.
OutOfRangeIsIgnored ==
  [][(/\ request'.mutation = "updateCallOutcome"
      /\ request'.outcome \in Outcomes
      /\ \/ request'.callIndex < 0
         \/ request'.callIndex >= Len(hist(appointments, request'.fhirId)))
       => /\ appointments' = appointments
          /\ ~request'.error]_vars

\* An updateCallOutcome for the position just past the end of a history of
\* at least one record has been handled without error.
OutOfRangeIsIgnoredWitness ==
  /\ request.mutation = "updateCallOutcome"
  /\ request.outcome \in Terminal
  /\ ~request.error
  /\ Len(hist(appointments, request.fhirId)) >= 1
  /\ request.callIndex = Len(hist(appointments, request.fhirId))

\* C12: no two documents of the appointments table have the same fhirId,
\* and no two documents of the patients table have the same fhirId.
OnePerExternalId ==
  /\ \A i, j \in 1..Len(appointments) :
       appointments[i].fhirId = appointments[j].fhirId => i = j
  /\ \A i, j \in 1..Len(patients) :
       patients[i].fhirId = patients[j].fhirId => i = j

\* Two runs in progress together have both upserted appointment A1 and its
\* patient, and a third run has upserted them again.
OnePerExternalIdWitness ==
  /\ run[2].after = {}
  /\ run[3].after = {1, 2}
  /\ \A r \in SyncIds : run[r].results.appointments >= 1 /\ run[r].results.patients >= 1
  /\ Len(appointments) >= 1
  /\ Len(patients) = 1

\* Run r began after run q had returned and both get the same responses
\* from the source; any other run had ended before q began, so that the
\* store r finds is the one q left.
Resync(q, r) ==
  /\ q \in run[r].after
  /\ run[q].pc = "done"
  /\ run[q].outage = run[r].outage
  /\ \A p \in SyncIds \ {q, r} : run[p].pc = "idle" \/ p \in run[q].after

\* C13: when a sync run has returned and the sync is run again with the
\* same upstream data and the same fetch outcomes, no step of the second
\* run adds a document to the appointments or the patients table or
\* changes a field of a stored document.
ResyncChangesNothing ==
  [][\A q, r \in SyncIds :
       (Resync(q, r) /\ run'[r] # run[r]) =>
          /\ appointments' = appointments
          /\ patients' = patients]_vars

\* A run with a failed patient fetch was repeated with the same failure
\* after an earlier run without failures, and the repetition has returned
\* having upserted every appointment.
ResyncChangesNothingWitness ==
  /\ run[1].pc = "done" /\ run[1].outage = {}
  /\ run[2].pc = "done" /\ run[2].outage = {<<"A1", "Patient", "P1">>}
  /\ run[2].after = {1}
  /\ run[3].pc = "done" /\ run[3].outage = run[2].outage
  /\ run[3].results.appointments = Len(Bundle)

\* C14: whatever other mutations are awaited at the time, the step in which
\* a recordCall commits turns the stored history of its appointment into
\* that history with the one new record appended, and the step in which a
\* poller's updateCallOutcome commits turns it into that history with the
\* outcome of the record at callIndex replaced (unchanged when there is no
\* such record); the histories of the other appointments stay as they are.
\* So the mutations take effect one after the other, in the order of their
\* commits, and none undoes an append or an outcome write of another.
HistoryMutationsSerial ==
  [][\A k \in CallIds :
       LET a == call[k].fhirId
           before == hist(appointments, a)
           index == call[k].callIndex + 1 IN
       /\ (call[k].pc = "record" /\ call'[k].pc # "record") =>
             /\ hist(appointments', a) =
                  Append(before, [timestamp |-> call'[k].timestamp,
                                  callSid |-> call[k].callSid, outcome |-> "pending"])
             /\ \A b \in FhirIds \ {a} : hist(appointments', b) = hist(appointments, b)
       /\ (call[k].pc = "commit" /\ call'[k].stop = "committed") =>
             /\ hist(appointments', a) =
                  IF index <= Len(before)
                    THEN [before EXCEPT ![index] = [@ EXCEPT !.outcome = call[k].observed]]
                    ELSE before
             /\ \A b \in FhirIds \ {a} : hist(appointments', b) = hist(appointments, b)]_vars

\* The recordCall of call 2 committed while that of call 1, placed before
\* it for the same appointment, was awaited: record 0 is that of call 2 and
\* record 1 that of call 1; the poller of call 2 has since committed a
\* terminal outcome while the record of call 1 is in place.
HistoryMutationsSerialWitness ==
  \E a \in FhirIds :
    /\ Len(hist(appointments, a)) = 2
    /\ hist(appointments, a)[1].callSid = 2
    /\ hist(appointments, a)[2].callSid = 1
    /\ call[2].stop = "committed" /\ call[2].observed \in Terminal
    /\ call[1].pc = "poll"

\* C15: a run whose token request gets a non-OK response ends with an
\* error in its next step, having issued no fetch and no upsert; that step
\* leaves the appointments and the patients table as they were, and the
\* run takes no step after it.
AuthFailureAborts ==
  [][\A r \in SyncIds :
       /\ (run[r].pc = "auth" /\ <<"Auth">> \in run[r].outage /\ run'[r] # run[r]) =>
             /\ run'[r].pc = "failed"
             /\ run'[r].fetches = 0
             /\ run'[r].results = [appointments |-> 0, patients |-> 0]
             /\ appointments' = appointments
             /\ patients' = patients
       /\ run[r].pc = "failed" => run'[r] = run[r]]_vars

\* A run has failed at authentication against an empty store, and the
\* store is still empty when the next run is about to authenticate.
AuthFailureAbortsWitness ==
  /\ run[1].pc = "failed" /\ <<"Auth">> \in run[1].outage
  /\ run[1].fetches = 0
  /\ run[2].pc = "auth" /\ run[2].after = {1}
  /\ appointments = <<>> /\ patients = <<>>

\* The locals a nested fetch of the given resource type sets when it
\* succeeds, as fields of the stored appointment.
SuppliedFields(type) ==
  CASE type = "ServiceRequest" -> {"serviceRequestCode", "serviceRequestCategory"}
    [] type = "Patient" -> {"patientName", "patientPhone"}
    [] type = "PractitionerRole" -> {"organizationId", "organizationName"}
    [] type = "Organization" -> {"organizationName"}
    [] OTHER -> {}

\* Every fetch of a resource of the given type for entry a fails in run rn.
AllFetchesFail(rn, a, type) ==
  \A key \in FetchKeys : (Len(key) = 3 /\ key[1] = a /\ key[2] = type) => key \in rn.outage

\* C16: in the step in which a run's appointment upsert is accepted, for an
\* entry one of whose nested fetches failed in that run: the appointment is
\* stored, the fields the failed fetch would have supplied (and no other
\* fetch of the entry did supply) are unset in the stored appointment, and
\* the run goes on with the rest of the batch.
FailedFetchLeavesUnset ==
  [][\A r \in SyncIds :
       (/\ run[r].pc = "appointmentUpsert" /\ run'[r] # run[r]
        /\ ~fails(run[r], "appointments.upsert", Bundle[run[r].entry].id)) =>
          LET a == Bundle[run[r].entry].id
              i == getByFhirId(appointments', a) IN
          /\ i # 0
          /\ \A key \in run[r].outage :
               (Len(key) = 3 /\ key[1] = a /\ AllFetchesFail(run[r], a, key[2])) =>
                  \A f \in SuppliedFields(key[2]) : appointments'[i][f] = None
          /\ run'[r].results.appointments = run[r].results.appointments + 1
          /\ run'[r].pc # "failed"
          /\ run'[r].entry = run[r].entry + 1]_vars

\* C17: as long as no outcome was corrected by hand, the record of a call
\* that was cancelled before it was resolved has outcome pending or
\* failed.
CancelledStaysUnanswered ==
  \A k \in CallIds :
    (k \in cancelled /\ overridesLeft = MaxOverrides) =>
       \A i \in 1..Len(hist(appointments, call[k].fhirId)) :
          hist(appointments, call[k].fhirId)[i].callSid = call[k].callSid =>
             hist(appointments, call[k].fhirId)[i].outcome \in {"pending", "failed"}

\* C18: in the call history of every appointment each record has a
\* timestamp not earlier than that of the record before it.
TimestampsNonDecreasing ==
  \A a \in FhirIds :
    \A i \in 1..(Len(hist(appointments, a)) - 1) :
      hist(appointments, a)[i].timestamp <= hist(appointments, a)[i + 1].timestamp

\* The digits of a string in their order, character by character.
RECURSIVE onlyDigits(_)
onlyDigits(s) ==
  IF s = <<>> THEN <<>>
  ELSE IF Head(s) \in {"0", "1", "2", "3", "4", "5", "6", "7", "8", "9"}
    THEN <<Head(s)>> \o onlyDigits(Tail(s))
    ELSE onlyDigits(Tail(s))

\* C19: with d the digits of the input in their order, every other
\* character dropped: 9 digits starting with 9 give "+56" d, 8 digits give
\* "+569" d, 11 digits starting with 56 give "+" d; so 912345678, 12345678
\* and 56912345678 all give +56912345678.
PhoneNormalization ==
  formatted # None =>
    LET d == onlyDigits(phoneArg)
        mobile == <<"+", "5", "6", "9", "1", "2", "3", "4", "5", "6", "7", "8">> IN
    /\ (Len(d) = 9 /\ d[1] = "9") => formatted[1] = <<"+", "5", "6">> \o d
    /\ Len(d) = 8 => formatted[1] = <<"+", "5", "6", "9">> \o d
    /\ (Len(d) = 11 /\ d[1] = "5" /\ d[2] = "6") => formatted[1] = <<"+">> \o d
    /\ d = <<"9", "1", "2", "3", "4", "5", "6", "7", "8">> => formatted[1] = mobile
    /\ d = <<"1", "2", "3", "4", "5", "6", "7", "8">> => formatted[1] = mobile
    /\ d = <<"5", "6", "9", "1", "2", "3", "4", "5", "6", "7", "8">> => formatted[1] = mobile

\* "9 1234 5678", "1234 5678" or "+56 91234 5678" was formatted to
\* +56912345678.
PhoneNormalizationWitness ==
  /\ formatted = Some(<<"+", "5", "6", "9", "1", "2", "3", "4", "5", "6", "7", "8">>)
  /\ \/ phoneArg = <<"9", " ", "1", "2", "3", "4", " ", "5", "6", "7", "8">>
     \/ phoneArg = <<"1", "2", "3", "4", " ", "5", "6", "7", "8">>
     \/ phoneArg = <<"+", "5", "6", "9", "1", "2", "3", "4", " ", "5", "6", "7", "8">>

\* C20: whatever the input, the result is "+56" followed by exactly nine
\* digits.
PhoneIsE164 ==
  formatted # None =>
    /\ Len(formatted[1]) = 12
    /\ SubSeq(formatted[1], 1, 3) = <<"+", "5", "6">>
    /\ \A i \in 4..12 : formatted[1][i] \in Digit

\* C21: a step in which the backend handles an updateCallOutcome with an
\* accepted outcome and a callIndex inside the stored history gives no
\* error and sets the outcome of the record at callIndex to the argument,
\* whatever outcome it had; that record keeps its timestamp and callSid,
\* every other record, the length of the history, the other fields of the
\* appointment (contacted among them) and every other document stay as
\* they were.
UpdateOutcomeOverwritesInPlace ==
  [][(/\ request'.mutation = "updateCallOutcome"
      /\ request'.outcome \in Outcomes
      /\ request'.callIndex >= 0
      /\ request'.callIndex < Len(hist(appointments, request'.fhirId)))
       => LET a == request'.fhirId
              i == getByFhirId(appointments, a)
              n == request'.callIndex + 1
              before == hist(appointments, a)
              after == hist(appointments', a) IN
          /\ ~request'.error
          /\ Len(appointments') = Len(appointments)
          /\ \A j \in 1..Len(appointments) : j # i => appointments'[j] = appointments[j]
          /\ \A f \in DocFields \ {"callHistory"} : appointments'[i][f] = appointments[i][f]
          /\ Len(after) = Len(before)
          /\ \A m \in 1..Len(before) : m # n => after[m] = before[m]
          /\ after[n] = [timestamp |-> before[n].timestamp,
                         callSid |-> before[n].callSid,
                         outcome |-> request'.outcome]]_vars

\* An answered record of a history of two records, of an appointment whose
\* contacted flag had been reset, was set back to pending; the other record
\* is resolved.
UpdateOutcomeOverwritesInPlaceWitness ==
  /\ request.mutation = "updateCallOutcome"
  /\ request.replaced = "answered" /\ request.outcome = "pending"
  /\ ~request.error
  /\ LET h == hist(appointments, request.fhirId) IN
       /\ Len(h) = 2
       /\ h[request.callIndex + 1].outcome = "pending"
       /\ \E m \in 1..2 : m # request.callIndex + 1 /\ h[m].outcome \in Terminal
  /\ contactedOf(appointments, request.fhirId) = Some(FALSE)

\* C22: the step in which a call handler gets the answer of POST /call is
\* taken for an appointment with a phone only and leaves the table as it
\* was; when the answer is a failure or a rejection the handler has ended
\* and takes no further step; and the history of an appointment grows only
\* in the step that ends the recordCall of a handler whose POST /call was
\* accepted.  So without a phone and after a failed call request the call
\* history and contacted are what they were.
RecordOnlyAfterCallAccepted ==
  [][/\ \A k \in CallIds :
          /\ (call[k].pc = "idle" /\ call'[k].pc # "idle") =>
                /\ hasPhone(appointments, call'[k].fhirId)
                /\ appointments' = appointments
                /\ \/ call'[k].pc = "record" /\ call'[k].stop = "none"
                   \/ call'[k].pc = "done" /\ call'[k].stop = "call-failed"
          /\ call[k].stop = "call-failed" => call'[k] = call[k]
     /\ \A a \in FhirIds :
          Len(hist(appointments', a)) > Len(hist(appointments, a)) =>
             \E k \in CallIds :
                /\ call[k].pc = "record" /\ call[k].stop = "none"
                /\ call[k].fhirId = a
                /\ call'[k].pc # "record"]_vars

\* The call requests from the card and from the sidebar of an appointment
\* with a phone have both failed: its history is empty and its contacted
\* flag is the false the sync stored.
RecordOnlyAfterCallAcceptedWitness ==
  \E j, k \in CallIds :
    /\ call[j].stop = "call-failed" /\ call[j].origin = "card"
    /\ call[k].stop = "call-failed" /\ call[k].origin = "sidebar"
    /\ call[j].fhirId = call[k].fhirId
    /\ hasPhone(appointments, call[k].fhirId)
    /\ hist(appointments, call[k].fhirId) = <<>>
    /\ contactedOf(appointments, call[k].fhirId) = Some(FALSE)

\* The awaits of the processing of one bundle entry before its upsert.
NestedSteps == {"serviceRequest", "patient", "patientUpsert", "practitionerRole", "organization"}

\* C23: a run that awaits a nested fetch or the patient upsert of entry e
\* has upserted exactly the e - 1 entries before it; when it awaits the
\* appointment upsert of entry e, both loops over the references of e have
\* ended and no patient upsert is outstanding; and a run moves from entry e
\* to entry e + 1 only in the step that ends the appointment upsert of e.
NestedBeforeUpsertInOrder ==
  [][\A r \in SyncIds :
       /\ run[r].pc \in NestedSteps \cup {"appointmentUpsert"} =>
             /\ run[r].entry \in 1..Len(Bundle)
             /\ run[r].results.appointments = run[r].entry - 1
       /\ run[r].pc = "appointmentUpsert" =>
             /\ run[r].basedOn = Len(Bundle[run[r].entry].basedOn) + 1
             /\ run[r].participant = Len(Bundle[run[r].entry].participant) + 1
             /\ run[r].patient = None
       /\ (run[r].entry >= 1 /\ run'[r].entry # run[r].entry) =>
             /\ run[r].pc = "appointmentUpsert"
             /\ ~fails(run[r], "appointments.upsert", Bundle[run[r].entry].id)
             /\ run'[r].entry = run[r].entry + 1
             /\ getByFhirId(appointments', Bundle[run[r].entry].id) # 0
       /\ (run[r].pc \in NestedSteps /\ run'[r] # run[r]) =>
             /\ appointments' = appointments
             /\ run'[r].pc \in NestedSteps \cup {"appointmentUpsert"}]_vars

\* A run without failures has returned after six nested fetches and two
\* patient upserts, and the table has A1 before A2.
NestedBeforeUpsertInOrderWitness ==
  \E r \in SyncIds :
    /\ run[r].pc = "done" /\ run[r].outage = {}
    /\ run[r].fetches = 6
    /\ run[r].results = [appointments |-> 2, patients |-> 2]
    /\ Len(appointments) = 2
    /\ appointments[1].fhirId = "A1" /\ appointments[2].fhirId = "A2"

\* The bundle entries the failing requests of a run belong to.
FailingEntries(rn) == {key[1] : key \in {k \in rn.outage : Len(k) = 3}}

\* C24: a run that has ended and all of whose failing requests belong to
\* one bundle entry (a nested fetch, the patient upsert or the appointment
\* upsert of that entry) has returned normally and has upserted every other
\* entry of the bundle.
OtherEntriesStillUpserted ==
  \A r \in SyncIds :
    (/\ run[r].pc \in {"done", "failed"}
     /\ run[r].outage # {}
     /\ \A key \in run[r].outage : Len(key) = 3
     /\ Cardinality(FailingEntries(run[r])) = 1) =>
        /\ run[r].pc = "done"
        /\ run[r].results.appointments >= Len(Bundle) - 1
        /\ \A e \in 1..Len(Bundle) :
             Bundle[e].id \notin FailingEntries(run[r]) =>
                getByFhirId(appointments, Bundle[e].id) # 0

\* The same for the failures the handler catches: a nested fetch or a
\* patient upsert.
CaughtFailuresDoNotBlock ==
  \A r \in SyncIds :
    (/\ run[r].pc \in {"done", "failed"}
     /\ run[r].outage # {}
     /\ \A key \in run[r].outage : Len(key) = 3 /\ key[2] # "appointments.upsert") =>
        /\ run[r].pc = "done"
        /\ run[r].results.appointments = Len(Bundle)

\* C25: in every stored appointment a serviceRequestCode and a
\* serviceRequestCategory are those of the source's service request named
\* by the stored serviceRequestId, patientName and patientPhone those of
\* the patient named by patientId, and organizationName that of the
\* organization named by organizationId.
ResolvedFieldsAttributed ==
  \A i \in 1..Len(appointments) :
    LET doc == appointments[i] IN
    /\ doc.serviceRequestCode # None =>
          /\ doc.serviceRequestId # None
          /\ doc.serviceRequestCode = ServiceRequest[doc.serviceRequestId[1]].code
    /\ doc.serviceRequestCategory # None =>
          /\ doc.serviceRequestId # None
          /\ doc.serviceRequestCategory = ServiceRequest[doc.serviceRequestId[1]].category
    /\ doc.patientName # None =>
          /\ doc.patientId # None
          /\ doc.patientName = Some(<<Patient[doc.patientId[1]].given,
                                      Patient[doc.patientId[1]].family>>)
    /\ doc.patientPhone # None =>
          /\ doc.patientId # None
          /\ doc.patientPhone = Patient[doc.patientId[1]].telecom
    /\ doc.organizationName # None =>
          /\ doc.organizationId # None
          /\ doc.organizationName = Organization[doc.organizationId[1]].name

\* The ways a started poller ends.
PollerStops == {"committed", "commit-error", "poll-error", "ceiling"}

\* C26: for every record a call initiation has appended, from the card or
\* from the sidebar, the handler that appended it has started a status
\* poller for the callSid of the record: that poller is polling, is
\* committing, or has stopped.
PollerForEveryRecord ==
  \A a \in FhirIds : \A i \in 1..Len(hist(appointments, a)) :
    \E k \in CallIds :
      /\ call[k].callSid = hist(appointments, a)[i].callSid
      /\ call[k].fhirId = a
      /\ \/ call[k].pc \in {"poll", "commit"}
         \/ call[k].pc = "done" /\ call[k].stop \in PollerStops

\* C27: a step in which the backend handles an upsert for an appointment
\* that is stored changes in that document the fields given in the
\* arguments to the values given, and nothing else: the call history and
\* every field whose argument is absent keep their values, no document is
\* added and no other document changes.
UpsertPatchesGivenFields ==
  [][(request'.mutation = "upsert" /\ getByFhirId(appointments, request'.fhirId) # 0)
       => LET i == getByFhirId(appointments, request'.fhirId) IN
          /\ Len(appointments') = Len(appointments)
          /\ \A j \in 1..Len(appointments) : j # i => appointments'[j] = appointments[j]
          /\ appointments'[i].callHistory = appointments[i].callHistory
          /\ \A f \in {"patientPhone", "contacted"} :
               appointments'[i][f] =
                 IF request'[f] # None THEN request'[f] ELSE appointments[i][f]
          /\ \A f \in DocFields \ {"patientPhone", "contacted"} :
               appointments'[i][f] = appointments[i][f]]_vars

\* An upsert without phone and without contacted was handled for an
\* appointment that has a phone, contacted true and a history of two
\* records, one of them resolved: all three are still there.
UpsertPatchesGivenFieldsWitness ==
  /\ request.mutation = "upsert"
  /\ request.patientPhone = None /\ request.contacted = None
  /\ hasPhone(appointments, request.fhirId)
  /\ contactedOf(appointments, request.fhirId) = Some(TRUE)
  /\ Len(hist(appointments, request.fhirId)) = 2
  /\ \E m \in 1..2 : hist(appointments, request.fhirId)[m].outcome \in Terminal

\* C28 as stated: every stored appointment with a non-empty call history
\* has contacted = true.
HistoryImpliesContacted ==
  \A a \in FhirIds :
    hist(appointments, a) # <<>> => contactedOf(appointments, a) = Some(TRUE)

\* C28, amended: the step in which a recordCall for a stored appointment is
\* handled leaves contacted true; an updateCallOutcome never changes
\* contacted; and the contacted flag of an appointment with a non-empty
\* history stops being true only in a step that handles a markContacted or
\* an upsert for that appointment with the argument contacted = false.
ContactedTrueUntilReset ==
  [][\A a \in FhirIds :
       getByFhirId(appointments, a) # 0 =>
          /\ (request'.mutation = "recordCall" /\ request'.fhirId = a) =>
                contactedOf(appointments', a) = Some(TRUE)
          /\ request'.mutation = "updateCallOutcome" =>
                contactedOf(appointments', a) = contactedOf(appointments, a)
          /\ (/\ hist(appointments, a) # <<>>
              /\ contactedOf(appointments, a) = Some(TRUE)
              /\ contactedOf(appointments', a) # Some(TRUE)) =>
                /\ request'.mutation \in {"markContacted", "upsert"}
                /\ request'.fhirId = a
                /\ request'.contacted = Some(FALSE)]_vars

\* An upsert carrying contacted = false was handled for an appointment with
\* calls in its history, and the appointment is stored as not contacted.
ContactedTrueUntilResetWitness ==
  /\ request.mutation = "upsert" /\ request.contacted = Some(FALSE)
  /\ Len(hist(appointments, request.fhirId)) >= 1
  /\ contactedOf(appointments, request.fhirId) = Some(FALSE)

\* C29: when the poller of a call has stopped, by whichever path, the card
\* that placed the call no longer has the callSid of that call as its
\* active call, so its call button is not disabled on account of it.
StoppedPollerClearsActiveCall ==
  \A k \in CallIds :
    (call[k].pc = "done" /\ call[k].stop \in PollerStops) =>
       activeCallSid[call[k].client][call[k].fhirId] # Some(call[k].callSid)

\* C30: a step in which the backend handles a recordCall, a markContacted
\* or an updateCallOutcome (with an outcome the validator accepts) for a
\* fhirId that no stored appointment has leaves the table as it was, no
\* document added and none changed, and gives the client no error.
MissingAppointmentIsNoOp ==
  [][(/\ request'.mutation \in {"recordCall", "markContacted", "updateCallOutcome"}
      /\ request'.mutation = "updateCallOutcome" => request'.outcome \in Outcomes
      /\ getByFhirId(appointments, request'.fhirId) = 0)
       => /\ appointments' = appointments
          /\ ~request'.error]_vars

\* A markContacted for A2, which is not stored, was handled without error
\* while A1 is stored with its two calls; A2 is still not stored.
MissingAppointmentIsNoOpWitness ==
  /\ request.mutation = "markContacted" /\ request.fhirId = "A2"
  /\ ~request.error
  /\ getByFhirId(appointments, "A2") = 0
  /\ Len(appointments) = 1
  /\ Len(hist(appointments, "A1")) = 2

====
